---------------------------- MODULE Spec2Model ----------------------------
(***************************************************************************)
(* The adaptive Huffman engine of the SVC library (huffman.cpp): one       *)
(* encoder HFtree and one decoder HFtree connected by a bit stream.        *)
(*                                                                         *)
(* Nodes are handles 1..n into per-field arrays (parent, low, high,        *)
(* frequency, term); NULL is 0.  The block list (blocklist.h), the hash    *)
(* table (hashtable.h), the LZ literal coder (lz.h) and the bit stream are *)
(* collaborators of huffman.cpp and are modelled by their contracts.       *)
(***************************************************************************)
EXTENDS Integers, Sequences, FiniteSets

(* ------------------------------ bounds -------------------------------- *)

\* number of distinct user symbols offered to the encoder
NSym == 2

\* number of symbols fed to the encoder in one run
MaxLen == 6

\* number of encoded symbols the bit stream holds before the decoder runs
MaxPending == 1

(* ------------------------------- terms -------------------------------- *)

NULL == 0

\* aterm(): the default-constructed (null) term
NullTerm == <<"null", 0>>

\* ESC(NEW)
ESCAPE_SEQUENCE == <<"ESC", 0>>

\* ESC(NIL)
NO_ATERM == <<"ESC", 1>>

\* a user term (an application value), compared by identity
Appl(n) == <<"appl", n>>

\* aterm_int(index)
aterm_int(index) == <<"int", index>>

\* ((aterm_int)term).value()
value(term) == term[2]

\* the integer the caller of the index variant passes to end a stream
NO_INT == NSym + 1

UserTerms == {Appl(n) : n \in 1..NSym}

UserInts == 1..NSym

AllTerms ==
  UserTerms \cup {aterm_int(i) : i \in UserInts \cup {NO_INT}}
            \cup {NullTerm, ESCAPE_SEQUENCE, NO_ATERM}

(* ---------------------------- hash table ------------------------------ *)

\* no entry for the term
Absent == -1

\* an empty table
HTempty == [x \in AllTerms |-> Absent]

HTmember(terms, term) == terms[term] # Absent

HTgetPtr(terms, term) == terms[term]

HTsetPtr(terms, term, ptr) == [terms EXCEPT ![term] = ptr]

HTinsert(terms, term, ptr) == [terms EXCEPT ![term] = ptr]

(* ---------------------------- block list ------------------------------ *)

BLinit == <<>>

\* a new node goes right behind the head of the list (the escape leaf)
BLinsert(blockList, node) ==
  IF blockList = <<>> THEN <<node>>
  ELSE <<Head(blockList), node>> \o Tail(blockList)

\* position of node in the list
BLpos(blockList, node) == CHOOSE i \in 1..Len(blockList) : blockList[i] = node

\* last position of the maximal run of equal frequency that starts at i
RECURSIVE RunEnd(_, _, _)
RunEnd(frequency, blockList, i) ==
  IF i < Len(blockList) /\ frequency[blockList[i + 1]] = frequency[blockList[i]]
  THEN RunEnd(frequency, blockList, i + 1)
  ELSE i

\* the last node of the block of 'node'
Blast(t, node) == t.blockList[RunEnd(t.frequency, t.blockList, BLpos(t.blockList, node))]

\* the node before 'node' in the list
Bprevious(t, node) ==
  LET i == BLpos(t.blockList, node)
  IN  IF i = 1 THEN NULL ELSE t.blockList[i - 1]

\* exchange node1 and node2 (if any) in the list, then count node1 once more
BLswap(t, node1, node2) ==
  LET i == BLpos(t.blockList, node1)
      swapped ==
        IF node2 = NULL THEN t.blockList
        ELSE LET j == BLpos(t.blockList, node2)
             IN  [t.blockList EXCEPT ![i] = node2, ![j] = node1]
  IN  [t EXCEPT !.blockList = swapped,
                !.frequency[node1] = t.frequency[node1] + 1]

(* ------------------------------ HFinit -------------------------------- *)

\* variant: the root is put on the block list before the escape leaf
HFinitRootFirst(terms) ==
  [ codes     |-> 1,
    top       |-> 2,
    parent    |-> <<NULL, 1>>,
    low       |-> <<2, NULL>>,
    high      |-> <<NULL, NULL>>,
    frequency |-> <<0, 0>>,
    term      |-> <<NullTerm, ESCAPE_SEQUENCE>>,
    blockList |-> BLinsert(BLinsert(BLinit, 1), 2),
    terms     |-> terms,
    hung      |-> FALSE ]

\* variant: the escape leaf is hung in the high slot of the root
HFinitEscapeHigh(terms) ==
  [ codes     |-> 1,
    top       |-> 2,
    parent    |-> <<NULL, 1>>,
    low       |-> <<NULL, NULL>>,
    high      |-> <<2, NULL>>,
    frequency |-> <<0, 0>>,
    term      |-> <<NullTerm, ESCAPE_SEQUENCE>>,
    blockList |-> BLinsert(BLinsert(BLinit, 2), 1),
    terms     |-> terms,
    hung      |-> FALSE ]

HFinit(terms) ==
  [ codes     |-> 1,
    top       |-> 2,
    parent    |-> <<NULL, 1>>,
    low       |-> <<2, NULL>>,
    high      |-> <<NULL, NULL>>,
    frequency |-> <<0, 0>>,
    term      |-> <<NullTerm, ESCAPE_SEQUENCE>>,
    blockList |-> BLinsert(BLinsert(BLinit, 2), 1),
    terms     |-> terms,
    hung      |-> FALSE ]

Nodes(t) == 1..Len(t.parent)

(* ---------------------------- HFsuccessor ----------------------------- *)

\* variant: the node next to current in its block is taken without asking
\* whether it is the parent or a child of current
HFsuccessorNoParentCheck(t, current) ==
  LET last    == Blast(t, current)
      prelast == Bprevious(t, last)
  IN  IF last = current THEN NULL
      ELSE IF current = prelast
           THEN last
           ELSE IF t.parent[current] = prelast
                   \/ (prelast # NULL /\ t.parent[prelast] = current)
                THEN IF t.parent[current] = last \/ t.parent[last] = current
                     THEN NULL ELSE last
                ELSE prelast

\* variant: the neighbour of the last node is looked up on the wrong side,
\* behind the block instead of inside it
HFsuccessorPastBlock(t, current) ==
  LET last    == Blast(t, current)
      i       == BLpos(t.blockList, last)
      prelast == IF i = Len(t.blockList) THEN NULL ELSE t.blockList[i + 1]
  IN  IF last = current THEN NULL
      ELSE IF current = prelast
           THEN IF t.parent[current] = last \/ t.parent[last] = current
                THEN NULL ELSE last
           ELSE IF t.parent[current] = prelast
                   \/ (prelast # NULL /\ t.parent[prelast] = current)
                THEN IF t.parent[current] = last \/ t.parent[last] = current
                     THEN NULL ELSE last
                ELSE prelast

HFsuccessor(t, current) ==
  LET last    == Blast(t, current)
      prelast == Bprevious(t, last)
  IN  IF last = current THEN NULL
      ELSE IF current = prelast
           THEN IF t.parent[current] = last \/ t.parent[last] = current
                THEN NULL ELSE last
           ELSE IF t.parent[current] = prelast
                   \/ (prelast # NULL /\ t.parent[prelast] = current)
                THEN IF t.parent[current] = last \/ t.parent[last] = current
                     THEN NULL ELSE last
                ELSE prelast

(* ------------------------------ HFswap -------------------------------- *)

\* the slot that points at 'node': the root pointer, or a child slot of its parent
SlotOf(t, node) ==
  IF t.codes = node THEN <<"root", NULL>>
  ELSE IF node = t.low[t.parent[node]] THEN <<"low", t.parent[node]>>
  ELSE <<"high", t.parent[node]>>

SlotWrite(t, slot, node) ==
  IF slot[1] = "root" THEN [t EXCEPT !.codes = node]
  ELSE IF slot[1] = "low" THEN [t EXCEPT !.low[slot[2]] = node]
  ELSE [t EXCEPT !.high[slot[2]] = node]

\* variant: the second slot is never written
HFswapOneSlot(t, node1, node2) ==
  LET parent1Ptr == SlotOf(t, node1)
      t1 == SlotWrite(t, parent1Ptr, node2)
      tmp == t.parent[node2]
  IN  [t1 EXCEPT !.parent[node2] = t.parent[node1], !.parent[node1] = tmp]

HFswap(t, node1, node2) ==
  LET parent1Ptr == SlotOf(t, node1)
      parent2Ptr == SlotOf(t, node2)
      t1 == SlotWrite(t, parent1Ptr, node2)
      t2 == SlotWrite(t1, parent2Ptr, node1)
      tmp == t.parent[node2]
  IN  [t2 EXCEPT !.parent[node2] = t.parent[node1], !.parent[node1] = tmp]

(* ------------------------------ HFupdate ------------------------------ *)

\* variant: BLswap is called with its two nodes exchanged
HFupdateStepCountsSuccessor(t, current) ==
  LET successor == HFsuccessor(t, current)
  IN  IF successor = NULL
      THEN BLswap(t, current, NULL)
      ELSE HFswap(BLswap(t, successor, current), current, successor)

\* variant: the block list only counts, the two nodes keep their places in it
HFupdateStepNoListSwap(t, current) ==
  LET successor == HFsuccessor(t, current)
  IN  IF successor = NULL
      THEN BLswap(t, current, NULL)
      ELSE HFswap(BLswap(t, current, NULL), current, successor)

\* one pass of the loop body for 'current'
HFupdateStep(t, current) ==
  LET successor == HFsuccessor(t, current)
  IN  IF successor = NULL
      THEN BLswap(t, current, NULL)
      ELSE HFswap(BLswap(t, current, successor), current, successor)

\* loop passes granted before the walk is declared not to end
MaxSteps(t) == 2 * Len(t.parent)

\* variant: the walk goes on from the parent read before the swap
RECURSIVE HFupdateLoopOldParent(_, _, _)
HFupdateLoopOldParent(t, current, fuel) ==
  IF current = NULL THEN t
  ELSE IF fuel = 0 THEN [t EXCEPT !.hung = TRUE]
  ELSE HFupdateLoopOldParent(HFupdateStep(t, current), t.parent[current], fuel - 1)

\* variant: the walk stops at the last node that has a parent
RECURSIVE HFupdateLoopBelowRoot(_, _, _)
HFupdateLoopBelowRoot(t, current, fuel) ==
  IF current = NULL \/ t.parent[current] = NULL THEN t
  ELSE IF fuel = 0 THEN [t EXCEPT !.hung = TRUE]
  ELSE LET t1 == HFupdateStep(t, current)
       IN  HFupdateLoopBelowRoot(t1, t1.parent[current], fuel - 1)

RECURSIVE HFupdateLoop(_, _, _)
HFupdateLoop(t, current, fuel) ==
  IF current = NULL THEN t
  ELSE IF fuel = 0 THEN [t EXCEPT !.hung = TRUE]
  ELSE LET t1 == HFupdateStep(t, current)
       IN  HFupdateLoop(t1, t1.parent[current], fuel - 1)

HFupdate(t, current) == HFupdateLoop(t, current, MaxSteps(t))

(* ----------------------------- HFwriteCode ---------------------------- *)

RECURSIVE HFwriteCodeLoop(_, _, _)
HFwriteCodeLoop(t, node, fuel) ==
  IF t.parent[node] = NULL \/ fuel = 0 THEN <<>>
  ELSE Append(HFwriteCodeLoop(t, t.parent[node], fuel - 1),
              IF node = t.high[t.parent[node]] THEN 1 ELSE 0)

\* variant: 1 is written for a low child and 0 for a high child
RECURSIVE HFwriteCodeLowIsOne(_, _)
HFwriteCodeLowIsOne(t, node) ==
  IF t.parent[node] = NULL THEN <<>>
  ELSE Append(HFwriteCodeLowIsOne(t, t.parent[node]),
              IF node = t.high[t.parent[node]] THEN 0 ELSE 1)

\* variant: each bit is written before the walk to the parent, leaf step first
RECURSIVE HFwriteCodeLeafFirst(_, _)
HFwriteCodeLeafFirst(t, node) ==
  IF t.parent[node] = NULL THEN <<>>
  ELSE <<IF node = t.high[t.parent[node]] THEN 1 ELSE 0>>
         \o HFwriteCodeLeafFirst(t, t.parent[node])

\* the bits written for 'node', in the order written
HFwriteCode(t, node) == HFwriteCodeLoop(t, node, MaxSteps(t))

(* ------------------------------- HFadd -------------------------------- *)

\* variant: a term the table does not hold yet is not inserted
HFaddBindNoInsert(terms, term, newLeaf) ==
  IF HTmember(terms, term) THEN HTsetPtr(terms, term, newLeaf)
  ELSE terms

\* variant: an entry the table already holds is left as it is
HFaddBindNoRebind(terms, term, newLeaf) ==
  IF HTmember(terms, term) THEN terms
  ELSE HTinsert(terms, term, newLeaf)

\* the table after binding term to the new leaf
HFaddBind(terms, term, newLeaf) ==
  IF HTmember(terms, term) THEN HTsetPtr(terms, term, newLeaf)
  ELSE HTinsert(terms, term, newLeaf)

\* variant: the only-child case is never taken, every insertion splits
HFaddAlwaysSplit(t, term) ==
  LET tmp == t.top
      p   == t.parent[tmp]
      n   == Len(t.parent)
      newNode == n + 1
      newLeaf == n + 2
      lowA  == IF t.low[p] = tmp THEN [t.low EXCEPT ![p] = newNode] ELSE t.low
      highA == IF t.low[p] = tmp THEN t.high ELSE [t.high EXCEPT ![p] = newNode]
  IN  [t EXCEPT !.parent    = [t.parent EXCEPT ![tmp] = newNode] \o <<p, newNode>>,
                !.low       = lowA \o <<tmp, NULL>>,
                !.high      = highA \o <<newLeaf, NULL>>,
                !.frequency = @ \o <<t.frequency[tmp], 0>>,
                !.term      = @ \o <<NullTerm, term>>,
                !.blockList = BLinsert(BLinsert(@, newNode), newLeaf),
                !.terms     = HFaddBind(@, term, newLeaf)]

\* variant: below the new interior node the new leaf is hung low and the
\* old leaf high
HFaddLeafLow(t, term) ==
  LET tmp == t.top
      p   == t.parent[tmp]
      n   == Len(t.parent)
  IN  IF t.high[p] = NULL
      THEN LET newNode == n + 1
           IN  [t EXCEPT !.parent    = Append(@, p),
                         !.low       = Append(@, NULL),
                         !.high      = [Append(@, NULL) EXCEPT ![p] = newNode],
                         !.frequency = Append(@, 0),
                         !.term      = Append(@, term),
                         !.blockList = BLinsert(@, newNode),
                         !.terms     = HFaddBind(@, term, newNode)]
      ELSE LET newNode == n + 1
               newLeaf == n + 2
               lowA  == IF t.low[p] = tmp THEN [t.low EXCEPT ![p] = newNode] ELSE t.low
               highA == IF t.low[p] = tmp THEN t.high ELSE [t.high EXCEPT ![p] = newNode]
           IN  [t EXCEPT !.parent    = [t.parent EXCEPT ![tmp] = newNode] \o <<p, newNode>>,
                         !.low       = lowA \o <<newLeaf, NULL>>,
                         !.high      = highA \o <<tmp, NULL>>,
                         !.frequency = @ \o <<t.frequency[tmp], 0>>,
                         !.term      = @ \o <<NullTerm, term>>,
                         !.blockList = BLinsert(BLinsert(@, newNode), newLeaf),
                         !.terms     = HFaddBind(@, term, newLeaf)]

\* variant: the new leaf is taken for the escape leaf from then on
HFaddMovesTop(t, term) ==
  LET tmp == t.top
      p   == t.parent[tmp]
      n   == Len(t.parent)
  IN  IF t.high[p] = NULL
      THEN LET newNode == n + 1
           IN  [t EXCEPT !.parent    = Append(@, p),
                         !.low       = Append(@, NULL),
                         !.high      = [Append(@, NULL) EXCEPT ![p] = newNode],
                         !.frequency = Append(@, 0),
                         !.term      = Append(@, term),
                         !.blockList = BLinsert(@, newNode),
                         !.terms     = HFaddBind(@, term, newNode),
                         !.top       = newNode]
      ELSE LET newNode == n + 1
               newLeaf == n + 2
               lowA  == IF t.low[p] = tmp THEN [t.low EXCEPT ![p] = newNode] ELSE t.low
               highA == IF t.low[p] = tmp THEN t.high ELSE [t.high EXCEPT ![p] = newNode]
           IN  [t EXCEPT !.parent    = [t.parent EXCEPT ![tmp] = newNode] \o <<p, newNode>>,
                         !.low       = lowA \o <<tmp, NULL>>,
                         !.high      = highA \o <<newLeaf, NULL>>,
                         !.frequency = @ \o <<t.frequency[tmp], 0>>,
                         !.term      = @ \o <<NullTerm, term>>,
                         !.blockList = BLinsert(BLinsert(@, newNode), newLeaf),
                         !.terms     = HFaddBind(@, term, newLeaf),
                         !.top       = newLeaf]

\* the tree after HFadd(tree, term); the new leaf is its last node
HFadd(t, term) ==
  LET tmp == t.top
      p   == t.parent[tmp]
      n   == Len(t.parent)
  IN  IF t.high[p] = NULL
      THEN LET newNode == n + 1
           IN  [t EXCEPT !.parent    = Append(@, p),
                         !.low       = Append(@, NULL),
                         !.high      = [Append(@, NULL) EXCEPT ![p] = newNode],
                         !.frequency = Append(@, 0),
                         !.term      = Append(@, term),
                         !.blockList = BLinsert(@, newNode),
                         !.terms     = HFaddBind(@, term, newNode)]
      ELSE LET newNode == n + 1
               newLeaf == n + 2
               lowA  == IF t.low[p] = tmp THEN [t.low EXCEPT ![p] = newNode] ELSE t.low
               highA == IF t.low[p] = tmp THEN t.high ELSE [t.high EXCEPT ![p] = newNode]
           IN  [t EXCEPT !.parent    = [t.parent EXCEPT ![tmp] = newNode] \o <<p, newNode>>,
                         !.low       = lowA \o <<tmp, NULL>>,
                         !.high      = highA \o <<newLeaf, NULL>>,
                         !.frequency = @ \o <<t.frequency[tmp], 0>>,
                         !.term      = @ \o <<NullTerm, term>>,
                         !.blockList = BLinsert(BLinsert(@, newNode), newLeaf),
                         !.terms     = HFaddBind(@, term, newLeaf)]

\* the node HFadd returns
HFaddResult(t) == Len(t.parent)

(* ----------------------------- bit stream ----------------------------- *)

\* one bit of a code word
BitItem(b) == [k |-> "bit", b |-> b, term |-> NullTerm]

\* one literal as the LZ coder writes it: opaque to the tree
LitItem(term) == [k |-> "lit", b |-> 0, term |-> term]

\* BSwriteBit for every bit of a code word
BSwriteBits(bits) == [i \in 1..Len(bits) |-> BitItem(bits[i])]

\* BSreadBit succeeds iff a bit is next in the stream
BSreadBit(fp) == fp # <<>> /\ Head(fp).k = "bit"

\* LZwriteATerm / LZwriteInt
LZwrite(term) == <<LitItem(term)>>

\* LZreadATerm / LZreadInt succeed iff a literal is next in the stream
LZread(fp) == fp # <<>> /\ Head(fp).k = "lit"

(* --------------------- HFencodeATerm, HFencodeIndex ------------------- *)

\* variant: the escape leaf is updated before the literal is written
HFencodeUpdatesEscape(t, term) ==
  IF HTmember(t.terms, term) /\ HTgetPtr(t.terms, term) # NULL
  THEN LET tmp == HTgetPtr(t.terms, term)
       IN  [ tree |-> HFupdate(t, tmp),
             out  |-> BSwriteBits(HFwriteCode(t, tmp)),
             ret  |-> 1 ]
  ELSE LET tmp == t.top
           t0  == HFupdate(t, tmp)
           t1  == HFadd(t0, term)
       IN  [ tree |-> HFupdate(t1, HFaddResult(t1)),
             out  |-> BSwriteBits(HFwriteCode(t, tmp)) \o LZwrite(term),
             ret  |-> 0 ]

\* variant: a known term is written without HFupdate of its leaf
HFencodeNoUpdateKnown(t, term) ==
  IF HTmember(t.terms, term) /\ HTgetPtr(t.terms, term) # NULL
  THEN LET tmp == HTgetPtr(t.terms, term)
       IN  [ tree |-> t,
             out  |-> BSwriteBits(HFwriteCode(t, tmp)),
             ret  |-> 1 ]
  ELSE LET tmp == t.top
           t1  == HFadd(t, term)
       IN  [ tree |-> HFupdate(t1, HFaddResult(t1)),
             out  |-> BSwriteBits(HFwriteCode(t, tmp)) \o LZwrite(term),
             ret  |-> 0 ]

\* variant: the code word is written after HFupdate, on the updated tree
HFencodeWritesAfterUpdate(t, term) ==
  IF HTmember(t.terms, term) /\ HTgetPtr(t.terms, term) # NULL
  THEN LET tmp == HTgetPtr(t.terms, term)
           t2  == HFupdate(t, tmp)
       IN  [ tree |-> t2,
             out  |-> BSwriteBits(HFwriteCode(t2, tmp)),
             ret  |-> 1 ]
  ELSE LET tmp == t.top
           t1  == HFadd(t, term)
           t2  == HFupdate(t1, HFaddResult(t1))
       IN  [ tree |-> t2,
             out  |-> BSwriteBits(HFwriteCode(t2, tmp)) \o LZwrite(term),
             ret  |-> 0 ]

\* variant: for a new term HFadd is called first, the escape code word is
\* written on the tree that already holds the new leaf
HFencodeWritesAfterAdd(t, term) ==
  IF HTmember(t.terms, term) /\ HTgetPtr(t.terms, term) # NULL
  THEN LET tmp == HTgetPtr(t.terms, term)
       IN  [ tree |-> HFupdate(t, tmp),
             out  |-> BSwriteBits(HFwriteCode(t, tmp)),
             ret  |-> 1 ]
  ELSE LET tmp == t.top
           t1  == HFadd(t, term)
       IN  [ tree |-> HFupdate(t1, HFaddResult(t1)),
             out  |-> BSwriteBits(HFwriteCode(t1, tmp)) \o LZwrite(term),
             ret  |-> 0 ]

\* variant: the table is not asked, every term is written as a new one
HFencodeAddsKnown(t, term) ==
  LET tmp == t.top
      t1  == HFadd(t, term)
  IN  [ tree |-> HFupdate(t1, HFaddResult(t1)),
        out  |-> BSwriteBits(HFwriteCode(t, tmp)) \o LZwrite(term),
        ret  |-> 0 ]

\* the body shared by both encoders, for the term that is looked up
HFencode(t, term) ==
  IF HTmember(t.terms, term) /\ HTgetPtr(t.terms, term) # NULL
  THEN LET tmp == HTgetPtr(t.terms, term)
       IN  [ tree |-> HFupdate(t, tmp),
             out  |-> BSwriteBits(HFwriteCode(t, tmp)),
             ret  |-> 1 ]
  ELSE LET tmp == t.top
           t1  == HFadd(t, term)
       IN  [ tree |-> HFupdate(t1, HFaddResult(t1)),
             out  |-> BSwriteBits(HFwriteCode(t, tmp)) \o LZwrite(term),
             ret  |-> 0 ]

HFencodeATerm(t, term) ==
  HFencode(t, IF term = NullTerm THEN NO_ATERM ELSE term)

HFencodeIndex(t, index) == HFencode(t, aterm_int(index))

(* --------------------- HFdecodeATerm, HFdecodeIndex ------------------- *)

\* what a decoder call hands back: the tree, the stream left, the return
\* value, whether the out parameter was written, and its value
Decoded(t, fp, ret, set, val) ==
  [tree |-> t, fp |-> fp, ret |-> ret, set |-> set, val |-> val]

\* variant: a leaf that carries a known term is handed back without update
RECURSIVE HFdecodeATermLoopNoUpdate(_, _, _)
HFdecodeATermLoopNoUpdate(t, current, fp) ==
  IF current = NULL THEN Decoded(t, fp, 1, FALSE, NullTerm)
  ELSE IF t.high[current] = NULL /\ t.low[current] = NULL
  THEN LET term == t.term[current]
       IN  IF term = ESCAPE_SEQUENCE
           THEN IF LZread(fp)
                THEN LET lit == Head(fp).term
                         t1  == HFadd(t, lit)
                         t2  == HFupdate(t1, HFaddResult(t1))
                     IN  IF lit = NO_ATERM
                         THEN Decoded(t2, Tail(fp), 0, TRUE, NullTerm)
                         ELSE Decoded(t2, Tail(fp), 1, TRUE, lit)
                ELSE Decoded(t, fp, 0, TRUE, term)
           ELSE IF term = NO_ATERM
                THEN Decoded(t, fp, 0, TRUE, NullTerm)
                ELSE Decoded(t, fp, 1, TRUE, term)
  ELSE IF BSreadBit(fp)
       THEN HFdecodeATermLoopNoUpdate(t, IF Head(fp).b = 0 THEN t.low[current]
                                         ELSE t.high[current], Tail(fp))
       ELSE Decoded(t, fp, 0, FALSE, NullTerm)

\* variant: the escape leaf is counted before its literal is read (the
\* update that the source keeps commented out at the escape branch)
RECURSIVE HFdecodeATermLoopEscapeFirst(_, _, _)
HFdecodeATermLoopEscapeFirst(t, current, fp) ==
  IF current = NULL THEN Decoded(t, fp, 1, FALSE, NullTerm)
  ELSE IF t.high[current] = NULL /\ t.low[current] = NULL
  THEN LET term == t.term[current]
       IN  IF term = ESCAPE_SEQUENCE
           THEN LET t0 == HFupdate(t, current)
                IN  IF LZread(fp)
                    THEN LET lit == Head(fp).term
                             t1  == HFadd(t0, lit)
                             t2  == HFupdate(t1, HFaddResult(t1))
                         IN  IF lit = NO_ATERM
                             THEN Decoded(t2, Tail(fp), 0, TRUE, NullTerm)
                             ELSE Decoded(t2, Tail(fp), 1, TRUE, lit)
                    ELSE Decoded(t0, fp, 0, TRUE, term)
           ELSE LET t2 == HFupdate(t, current)
                IN  IF term = NO_ATERM
                    THEN Decoded(t2, fp, 0, TRUE, NullTerm)
                    ELSE Decoded(t2, fp, 1, TRUE, term)
  ELSE IF BSreadBit(fp)
       THEN HFdecodeATermLoopEscapeFirst(t, IF Head(fp).b = 0 THEN t.low[current]
                                            ELSE t.high[current], Tail(fp))
       ELSE Decoded(t, fp, 0, FALSE, NullTerm)

RECURSIVE HFdecodeATermLoop(_, _, _)
HFdecodeATermLoop(t, current, fp) ==
  IF current = NULL THEN Decoded(t, fp, 1, FALSE, NullTerm)
  ELSE IF t.high[current] = NULL /\ t.low[current] = NULL
  THEN LET term == t.term[current]
       IN  IF term = ESCAPE_SEQUENCE
           THEN IF LZread(fp)
                THEN LET lit == Head(fp).term
                         t1  == HFadd(t, lit)
                         t2  == HFupdate(t1, HFaddResult(t1))
                     IN  IF lit = NO_ATERM
                         THEN Decoded(t2, Tail(fp), 0, TRUE, NullTerm)
                         ELSE Decoded(t2, Tail(fp), 1, TRUE, lit)
                ELSE Decoded(t, fp, 0, TRUE, term)
           ELSE LET t2 == HFupdate(t, current)
                IN  IF term = NO_ATERM
                    THEN Decoded(t2, fp, 0, TRUE, NullTerm)
                    ELSE Decoded(t2, fp, 1, TRUE, term)
  ELSE IF BSreadBit(fp)
       THEN HFdecodeATermLoop(t, IF Head(fp).b = 0 THEN t.low[current]
                                 ELSE t.high[current], Tail(fp))
       ELSE Decoded(t, fp, 0, FALSE, NullTerm)

HFdecodeATerm(t, fp) == HFdecodeATermLoop(t, t.codes, fp)

\* 1 if the condition holds, else 0
Bool2Int(c) == IF c THEN 1 ELSE 0

\* variant: the result of BSreadBit is not tested; a bit that could not be
\* read counts as 0
RECURSIVE HFdecodeIndexLoopNoBitCheck(_, _, _)
HFdecodeIndexLoopNoBitCheck(t, current, fp) ==
  IF current = NULL THEN Decoded(t, fp, 1, FALSE, 0)
  ELSE IF t.high[current] = NULL /\ t.low[current] = NULL
  THEN LET term == t.term[current]
       IN  IF term = ESCAPE_SEQUENCE
           THEN IF LZread(fp)
                THEN LET index == value(Head(fp).term)
                         t1    == HFadd(t, aterm_int(index))
                         t2    == HFupdate(t1, HFaddResult(t1))
                     IN  Decoded(t2, Tail(fp), Bool2Int(index # NO_INT), TRUE, index)
                ELSE Decoded(t, fp, 0, FALSE, 0)
           ELSE LET t2    == HFupdate(t, current)
                    index == value(term)
                IN  Decoded(t2, fp, Bool2Int(index # NO_INT), TRUE, index)
  ELSE IF BSreadBit(fp)
       THEN HFdecodeIndexLoopNoBitCheck(t, IF Head(fp).b = 0 THEN t.low[current]
                                           ELSE t.high[current], Tail(fp))
       ELSE HFdecodeIndexLoopNoBitCheck(t, t.low[current], fp)

RECURSIVE HFdecodeIndexLoop(_, _, _)
HFdecodeIndexLoop(t, current, fp) ==
  IF current = NULL THEN Decoded(t, fp, 1, FALSE, 0)
  ELSE IF t.high[current] = NULL /\ t.low[current] = NULL
  THEN LET term == t.term[current]
       IN  IF term = ESCAPE_SEQUENCE
           THEN IF LZread(fp)
                THEN LET index == value(Head(fp).term)
                         t1    == HFadd(t, aterm_int(index))
                         t2    == HFupdate(t1, HFaddResult(t1))
                     IN  Decoded(t2, Tail(fp), Bool2Int(index # NO_INT), TRUE, index)
                ELSE Decoded(t, fp, 0, FALSE, 0)
           ELSE LET t2    == HFupdate(t, current)
                    index == value(term)
                IN  Decoded(t2, fp, Bool2Int(index # NO_INT), TRUE, index)
  ELSE IF BSreadBit(fp)
       THEN HFdecodeIndexLoop(t, IF Head(fp).b = 0 THEN t.low[current]
                                 ELSE t.high[current], Tail(fp))
       ELSE Decoded(t, fp, 0, FALSE, 0)

HFdecodeIndex(t, fp) == HFdecodeIndexLoop(t, t.codes, fp)

(* --------------------------- state machine ---------------------------- *)

VARIABLES
  variant,   \* "term": HFencodeATerm/HFdecodeATerm; "index": the Index pair
  enc,       \* the HFtree of the writing side
  dec,       \* the HFtree of the reading side
  fp,        \* the bit stream between them: what is written and not yet read
  input,     \* the symbols handed to the encoder so far
  encRet,    \* the return values of the encoder calls
  output     \* what the decoder calls handed back so far

vars == <<variant, enc, dec, fp, input, encRet, output>>

\* encoded symbols the stream holds
Pending == Len(input) - Len(output)

Init ==
  /\ variant \in {"term", "index"}
  /\ enc = HFinit(HTempty)
  /\ dec = HFinit(HTempty)
  /\ fp = <<>>
  /\ input = <<>>
  /\ encRet = <<>>
  /\ output = <<>>

EncodeATerm(term) ==
  /\ variant = "term"
  /\ Len(input) < MaxLen
  /\ Pending < MaxPending
  /\ LET r == HFencodeATerm(enc, term)
     IN  /\ enc' = r.tree
         /\ fp' = fp \o r.out
         /\ encRet' = Append(encRet, r.ret)
  /\ input' = Append(input, term)
  /\ UNCHANGED <<variant, dec, output>>

EncodeIndex(index) ==
  /\ variant = "index"
  /\ Len(input) < MaxLen
  /\ Pending < MaxPending
  /\ LET r == HFencodeIndex(enc, index)
     IN  /\ enc' = r.tree
         /\ fp' = fp \o r.out
         /\ encRet' = Append(encRet, r.ret)
  /\ input' = Append(input, index)
  /\ UNCHANGED <<variant, dec, output>>

DecodeATerm ==
  /\ variant = "term"
  /\ Pending > 0
  /\ LET r == HFdecodeATerm(dec, fp)
     IN  /\ dec' = r.tree
         /\ fp' = r.fp
         /\ output' = Append(output, [ret |-> r.ret, set |-> r.set, val |-> r.val])
  /\ UNCHANGED <<variant, enc, input, encRet>>

DecodeIndex ==
  /\ variant = "index"
  /\ Pending > 0
  /\ LET r == HFdecodeIndex(dec, fp)
     IN  /\ dec' = r.tree
         /\ fp' = r.fp
         /\ output' = Append(output, [ret |-> r.ret, set |-> r.set, val |-> r.val])
  /\ UNCHANGED <<variant, enc, input, encRet>>

Next ==
  \/ \E term \in UserTerms \cup {NullTerm} : EncodeATerm(term)
  \/ \E index \in UserInts \cup {NO_INT} : EncodeIndex(index)
  \/ DecodeATerm
  \/ DecodeIndex

Spec == Init /\ [][Next]_vars

(* ------------------------ vocabulary of the claims --------------------- *)

IsLeaf(t, n) == t.low[n] = NULL /\ t.high[n] = NULL

\* weight of a child slot; an empty slot weighs nothing
Weight(t, n) == IF n = NULL THEN 0 ELSE t.frequency[n]

\* the nodes met descending from n through low and high, at most fuel levels deep
RECURSIVE Below(_, _, _)
Below(t, n, fuel) ==
  IF n = NULL \/ fuel = 0 THEN {}
  ELSE {n} \cup Below(t, t.low[n], fuel - 1) \cup Below(t, t.high[n], fuel - 1)

Reachable(t) == Below(t, t.codes, Len(t.parent))

\* number of parent steps from n to a node without parent
RECURSIVE Depth(_, _, _)
Depth(t, n, fuel) ==
  IF t.parent[n] = NULL \/ fuel = 0 THEN 0 ELSE 1 + Depth(t, t.parent[n], fuel - 1)

RECURSIVE Pow2(_)
Pow2(k) == IF k = 0 THEN 1 ELSE 2 * Pow2(k - 1)

RECURSIVE SumOver(_, _, _)
SumOver(t, S, k) ==
  IF S = {} THEN 0
  ELSE LET n == CHOOSE x \in S : TRUE
       IN  Pow2(k - Depth(t, n, k)) + SumOver(t, S \ {n}, k)

\* the Kraft sum of the leaves, scaled by 2^(number of nodes)
KraftScaled(t) ==
  SumOver(t, {n \in Reachable(t) : IsLeaf(t, n)}, Len(t.parent))

\* the terms bound to a leaf in the table
Bound(t) == {x \in AllTerms : t.terms[x] # Absent /\ t.terms[x] # NULL}

SiblingOrdered(t) ==
  \A i \in 1..(Len(t.blockList) - 1) :
    t.frequency[t.blockList[i]] <= t.frequency[t.blockList[i + 1]]

WeightSum(t) ==
  \A n \in Nodes(t) :
    ~IsLeaf(t, n) => t.frequency[n] = Weight(t, t.low[n]) + Weight(t, t.high[n])

TableConsistent(t) ==
  /\ {t.terms[x] : x \in Bound(t)} = {n \in Nodes(t) : IsLeaf(t, n) /\ n # t.top}
  /\ \A x, y \in Bound(t) : t.terms[x] = t.terms[y] => x = y
  /\ \A x \in Bound(t) : t.term[t.terms[x]] = x
  /\ \A m, n \in Nodes(t) :
       IsLeaf(t, m) /\ IsLeaf(t, n) /\ t.term[m] = t.term[n] => m = n
  /\ \A n \in Nodes(t) : IsLeaf(t, n) /\ n # t.top => n \in Reachable(t)

EscapeFirst(t) == t.blockList[1] = t.top /\ t.frequency[t.top] = 0

\* n has exactly one child
SingleChild(t, n) == (t.low[n] = NULL) # (t.high[n] = NULL)

BinaryComplete(t) ==
  \A n \in Nodes(t) : (t.low[n] = NULL) = (t.high[n] = NULL)

\* the whole observable state of an engine
TreeView(t) ==
  <<t.codes, t.top, t.parent, t.low, t.high, t.frequency, t.term, t.blockList, t.terms>>

\* some symbol was escaped after the first one and some symbol was known
MixedHistory ==
  /\ \E i \in 1..Len(encRet) : encRet[i] = 1
  /\ \E j \in 2..Len(encRet) : encRet[j] = 0

\* a leaf other than the escape leaf hangs in the low slot of the root:
\* some update has exchanged two nodes of the tree
SwapHappened(t) ==
  /\ t.low[t.codes] # NULL
  /\ IsLeaf(t, t.low[t.codes])
  /\ t.low[t.codes] # t.top

(* ------------------------------- claims ------------------------------- *)

\* C1: round trip.  Whatever the decoder has handed back so far is, position
\* by position, the sequence of symbols the encoder was given (terms in the
\* ATerm variant, integers in the Index variant), each delivered through the
\* out parameter.
C1_RoundTrip ==
  \A i \in 1..Len(output) : output[i].set /\ output[i].val = input[i]

\* four symbols came back, one of them a repetition read from a code word
C1_Witness ==
  /\ Len(output) >= 4
  /\ MixedHistory
  /\ \E i, j \in 1..Len(output) : i < j /\ input[i] = input[j] /\ encRet[j] = 1

\* C2: synchrony.  Whenever the decoder has decoded exactly the symbols the
\* encoder has encoded, the two engines agree on root and escape pointer,
\* parent/low/high links, every weight, every label, the sibling order and
\* the symbol-to-leaf table.
C2_Synchrony == Pending = 0 => TreeView(enc) = TreeView(dec)

\* both sides are level after known and escaped symbols and a tree swap
C2_Witness ==
  /\ Pending = 0
  /\ Len(output) >= 4
  /\ MixedHistory
  /\ SwapHappened(dec)

\* C3: sibling property.  In every state between two calls the weights read
\* along the sibling order never decrease, on the encoder and on the decoder.
C3_SiblingProperty == SiblingOrdered(enc) /\ SiblingOrdered(dec)

\* C4: weight sum.  In every state between two calls the weight of every
\* node that has a child is the sum of the weights of its children.
C4_WeightSum == WeightSum(enc) /\ WeightSum(dec)

\* a swap has happened and three internal nodes carry sums
C4_Witness ==
  /\ SwapHappened(enc)
  /\ Cardinality({n \in Nodes(enc) : ~IsLeaf(enc, n) /\ enc.frequency[n] >= 2}) >= 2
  /\ Len(input) >= 4

\* C5: weight conservation.  The weight of the root is the number of symbols
\* the engine has processed: escaped symbols count once.
C5_WeightConservation ==
  /\ enc.frequency[enc.codes] = Len(input)
  /\ dec.frequency[dec.codes] = Len(output)

\* escaped and known symbols have both been counted
C5_Witness ==
  /\ MixedHistory
  /\ Len(output) >= 5
  /\ Cardinality({i \in 1..Len(encRet) : encRet[i] = 0}) >= 3

\* C6: symbol table.  The leaves bound in the table are exactly the leaves
\* other than the escape leaf, no two terms are bound to one leaf, every
\* bound leaf carries the term it is bound to, no term labels two leaves, and
\* every such leaf is reached from the root.
C6_TableConsistent == TableConsistent(enc) /\ TableConsistent(dec)

\* three terms are bound on both sides and the tree has been rearranged
C6_Witness ==
  /\ Cardinality(Bound(enc)) >= 3
  /\ Cardinality(Bound(dec)) >= 3
  /\ SwapHappened(enc)

\* C7: the escape leaf is the first node of the sibling order and weighs 0.
C7_EscapeFirst == EscapeFirst(enc) /\ EscapeFirst(dec)

\* the escape leaf has sunk three levels and is still first
C7_Witness ==
  /\ Depth(enc, enc.top, Len(enc.parent)) >= 3
  /\ enc.blockList[1] = enc.top
  /\ MixedHistory

\* C8 as stated: the Kraft sum of the leaves is 1 in every state between calls.
C8_KraftAlways ==
  /\ KraftScaled(enc) = Pow2(Len(enc.parent))
  /\ KraftScaled(dec) = Pow2(Len(dec.parent))

\* C8 as amended: the Kraft sum is 1 once the engine holds its first symbol;
\* before that the escape leaf alone, one level below the root, gives 1/2.
C8_KraftAfterFirst ==
  /\ KraftScaled(enc) * (IF Len(input) = 0 THEN 2 ELSE 1) = Pow2(Len(enc.parent))
  /\ KraftScaled(dec) * (IF Len(output) = 0 THEN 2 ELSE 1) = Pow2(Len(dec.parent))

\* four leaves at three different depths
C8_Witness ==
  /\ Cardinality({n \in Nodes(enc) : IsLeaf(enc, n)}) >= 4
  /\ Cardinality({Depth(enc, n, Len(enc.parent)) :
                    n \in {m \in Nodes(enc) : IsLeaf(enc, m)}}) >= 3
  /\ SwapHappened(enc)

\* C9: binary completeness.  Once an engine holds its first symbol every node
\* has two children or none; before that only the root has a single child,
\* the escape leaf in its low slot.
C9_BinaryComplete ==
  /\ Len(input) > 0 => BinaryComplete(enc)
  /\ Len(output) > 0 => BinaryComplete(dec)
  /\ Len(input) = 0 =>
       \A n \in Nodes(enc) :
         SingleChild(enc, n) => n = enc.codes /\ enc.low[n] = enc.top
  /\ Len(output) = 0 =>
       \A n \in Nodes(dec) :
         SingleChild(dec, n) => n = dec.codes /\ dec.low[n] = dec.top

\* three internal nodes, all with two children, after a swap
C9_Witness ==
  /\ Cardinality({n \in Nodes(enc) : enc.low[n] # NULL /\ enc.high[n] # NULL}) >= 3
  /\ SwapHappened(enc)
  /\ Len(output) >= 3

(* ------------------ vocabulary of the claims on one call --------------- *)

\* the term an encoder call looks up for the symbol x it is given
EncKey(x) ==
  IF variant = "index" THEN aterm_int(x)
  ELSE IF x = NullTerm THEN NO_ATERM ELSE x

\* the symbol that ends a stream, as the caller of the encoder passes it
IsSentinel(x) == IF variant = "index" THEN x = NO_INT ELSE x = NullTerm

\* the table of t binds term to a leaf
Known(t, term) == t.terms[term] # Absent /\ t.terms[term] # NULL

\* the leaf whose code word an encoder call for term writes
EmittedLeaf(t, term) == IF Known(t, term) THEN t.terms[term] ELSE t.top

\* from node n follow the leading bits of stream s, 0 to low and 1 to high,
\* until a leaf, an empty slot, or something that is not a bit
RECURSIVE Walk(_, _, _)
Walk(t, n, s) ==
  IF n = NULL THEN [node |-> n, rest |-> s]
  ELSE IF IsLeaf(t, n) \/ s = <<>> THEN [node |-> n, rest |-> s]
  ELSE IF Head(s).k # "bit" THEN [node |-> n, rest |-> s]
  ELSE Walk(t, IF Head(s).b = 0 THEN t.low[n] ELSE t.high[n], Tail(s))

IsBit(item) == item.k = "bit"

\* an encoder call is the step
EncodeStep == Len(input') > Len(input)

\* a decoder call is the step
DecodeStep == Len(output') > Len(output)

\* what the encoder call of the step wrote
Appended == SubSeq(fp', Len(fp) + 1, Len(fp'))

\* the code-word bits the encoder call of the step wrote
AppendedCode == SelectSeq(Appended, IsBit)

\* C11: code-word emission.  The bits an encoder call writes are as many as
\* the leaf is deep in the tree the call found, and following them from the
\* root of that tree, 0 into low and 1 into high, ends at that leaf with no
\* bit left over.
C11_CodeWord ==
  [][EncodeStep =>
       LET leaf == EmittedLeaf(enc, EncKey(input'[Len(input')]))
           w    == Walk(enc, enc.codes, AppendedCode)
       IN  /\ Len(AppendedCode) = Depth(enc, leaf, Len(enc.parent))
           /\ w.node = leaf
           /\ w.rest = <<>>
           /\ \A i \in 1..Len(AppendedCode) : IsBit(Appended[i])]_vars

\* the code word of a known symbol, three bits long, is in the stream
C11_Witness ==
  /\ Pending = 1
  /\ Len(fp) >= 3
  /\ \A i \in 1..Len(fp) : IsBit(fp[i])
  /\ encRet[Len(encRet)] = 1

\* C12: encode branches on the table.  A term bound to a leaf is written as
\* code-word bits only, no node is created, its leaf is counted once more and
\* the call returns 1; any other term is written as the code word of the
\* escape leaf followed by its literal, a new leaf carrying the term is
\* created, bound and counted once, and the call returns 0.
C12_EncodeBranches ==
  [][EncodeStep =>
       LET term == EncKey(input'[Len(input')])
           leaf == EmittedLeaf(enc, term)
           w    == Walk(enc, enc.codes, AppendedCode)
           ret  == encRet'[Len(encRet')]
       IN  IF Known(enc, term)
           THEN /\ ret = 1
                /\ Appended = AppendedCode
                /\ w.node = enc.terms[term]
                /\ Len(enc'.parent) = Len(enc.parent)
                /\ enc'.terms = enc.terms
                /\ enc'.frequency[leaf] = enc.frequency[leaf] + 1
           ELSE /\ ret = 0
                /\ Appended = Append(AppendedCode, LitItem(term))
                /\ w.node = enc.top
                /\ Known(enc', term)
                /\ enc'.terms[term] > Len(enc.parent)
                /\ IsLeaf(enc', enc'.terms[term])
                /\ enc'.term[enc'.terms[term]] = term
                /\ enc'.frequency[enc'.terms[term]] = 1
                /\ enc'.top = enc.top]_vars

\* both branches have been taken, the known one for a leaf two levels down
C12_Witness ==
  /\ MixedHistory
  /\ encRet[Len(encRet)] = 1
  /\ Pending = 1
  /\ Len(fp) >= 2
  /\ Len(input) >= 4

(* ------------- the reading side on a stream that ends early ------------ *)

\* FaultSpec is Spec with a stream that may end anywhere: the file is cut, or
\* the reader asks for a symbol that was never written.  After the first
\* failed call the stream is given up.

\* symbols written on a stream that may be cut
FaultLen == MaxLen - 2

\* the end of the file, met where a bit or a literal was expected
EofItem == [k |-> "eof", b |-> 0, term |-> NullTerm]

\* the stream has been cut
Cut == fp # <<>> /\ fp[Len(fp)].k = "eof"

\* a decoder call has returned without counting a symbol
Failed == Len(output) > dec.frequency[dec.codes]

\* the file ends after the first k items that are still unread
Truncate(k) ==
  /\ ~Cut
  /\ ~Failed
  /\ fp' = Append(SubSeq(fp, 1, k), EofItem)
  /\ UNCHANGED <<variant, enc, dec, input, encRet, output>>

FaultEncodeATerm(term) ==
  /\ ~Cut
  /\ ~Failed
  /\ Len(input) < FaultLen
  /\ EncodeATerm(term)

FaultEncodeIndex(index) ==
  /\ ~Cut
  /\ ~Failed
  /\ Len(input) < FaultLen
  /\ EncodeIndex(index)

\* HFdecodeATerm on whatever the stream holds
FaultDecodeATerm ==
  /\ variant = "term"
  /\ ~Failed
  /\ LET r == HFdecodeATerm(dec, fp)
     IN  /\ dec' = r.tree
         /\ fp' = r.fp
         /\ output' = Append(output, [ret |-> r.ret, set |-> r.set, val |-> r.val])
  /\ UNCHANGED <<variant, enc, input, encRet>>

\* HFdecodeIndex on whatever the stream holds
FaultDecodeIndex ==
  /\ variant = "index"
  /\ ~Failed
  /\ LET r == HFdecodeIndex(dec, fp)
     IN  /\ dec' = r.tree
         /\ fp' = r.fp
         /\ output' = Append(output, [ret |-> r.ret, set |-> r.set, val |-> r.val])
  /\ UNCHANGED <<variant, enc, input, encRet>>

FaultNext ==
  \/ \E term \in UserTerms \cup {NullTerm} : FaultEncodeATerm(term)
  \/ \E index \in UserInts \cup {NO_INT} : FaultEncodeIndex(index)
  \/ \E k \in 0..Len(fp) : Truncate(k)
  \/ FaultDecodeATerm
  \/ FaultDecodeIndex

FaultSpec == Init /\ [][FaultNext]_vars

\* what the caller of a decoder holds after the call: the return value and
\* the variable it passed for the symbol
CallerView(r) == <<r.ret, r.val>>

\* what the caller holds after the decoder met the end-of-stream symbol
EndView == IF variant = "index" THEN <<0, NO_INT>> ELSE <<0, NullTerm>>

\* C13: end of stream.  The decoder reports 'end' exactly at the positions
\* where the encoder was given the sentinel and a symbol at every other
\* position; for the empty sequence only the sentinel is written and the
\* decoder returns no symbol; and what the caller holds after 'end' differs
\* from what it holds after a call that failed (bits exhausted, literal
\* unreadable).
C13_EndDistinguished ==
  /\ \A i \in 1..Len(output) :
       (i < Len(output) \/ ~Failed) =>
         /\ (output[i].ret = 0) <=> IsSentinel(input[i])
         /\ IsSentinel(input[i]) => CallerView(output[i]) = EndView
  /\ (Len(input) = 1 /\ IsSentinel(input[1]) /\ output = <<>> /\ ~Cut)
       => fp = <<BitItem(0), LitItem(EncKey(input[1]))>>
  /\ Failed => CallerView(output[Len(output)]) # EndView

\* the part of C13 that is about the successful calls only
C13_EndAtSentinel ==
  /\ \A i \in 1..Len(output) :
       (i < Len(output) \/ ~Failed) =>
         /\ (output[i].ret = 0) <=> IsSentinel(input[i])
         /\ IsSentinel(input[i]) => CallerView(output[i]) = EndView
  /\ (Len(input) = 1 /\ IsSentinel(input[1]) /\ output = <<>> /\ ~Cut)
       => fp = <<BitItem(0), LitItem(EncKey(input[1]))>>

\* C14: literal read failure.  A decoder call whose descent ends at the
\* escape leaf and finds no literal behind the code word returns 0 and leaves
\* the tree, the sibling order and the table as they were.
C14_LiteralFailure ==
  [][(DecodeStep /\ LET w == Walk(dec, dec.codes, fp)
                    IN  w.node = dec.top /\ ~LZread(w.rest))
       => /\ output'[Len(output')].ret = 0
          /\ dec' = dec]_vars

\* a term decoder with two symbols bound has stopped at the escape leaf, two
\* levels below the root, for want of the literal
C14_Witness ==
  /\ variant = "term"
  /\ Failed
  /\ output[Len(output)].set
  /\ output[Len(output)].val = ESCAPE_SEQUENCE
  /\ Len(dec.parent) >= 5
  /\ Len(enc.parent) > Len(dec.parent)
  /\ fp = <<EofItem>>

\* C15: bit stream exhausted.  A decoder call whose descent stands on an
\* internal node when no further bit can be read returns 0, hands no symbol
\* to the caller and leaves the tree, the sibling order and the table as they
\* were.
C15_BitsExhausted ==
  [][(DecodeStep /\ LET w == Walk(dec, dec.codes, fp)
                    IN  w.node # NULL /\ ~IsLeaf(dec, w.node) /\ ~BSreadBit(w.rest))
       => /\ output'[Len(output')].ret = 0
          /\ ~output'[Len(output')].set
          /\ dec' = dec]_vars

\* a decoder with three symbols bound ran out of bits below the root
C15_Witness ==
  /\ Failed
  /\ ~output[Len(output)].set
  /\ Len(dec.parent) >= 7
  /\ Pending = 0
  /\ fp = <<EofItem>>
  /\ Len(HFwriteCode(enc, EmittedLeaf(enc, EncKey(input[Len(input)])))) >= 2

(* -------------------- claims on the history of symbols ----------------- *)

\* every symbol of seq is the same one
OneSymbol(seq) == \A i \in 1..Len(seq) : seq[i] = seq[1]

\* seq is a, b, a, b, ... for two different symbols a and b, neither of them
\* the sentinel
Alternating(seq) ==
  /\ Len(seq) >= 2
  /\ seq[1] # seq[2]
  /\ ~IsSentinel(seq[1])
  /\ ~IsSentinel(seq[2])
  /\ \A i \in 3..Len(seq) : seq[i] = seq[i - 2]

\* how often the encoder was given the symbol that is looked up as term
Count(term, seq) == Cardinality({i \in 1..Len(seq) : EncKey(seq[i]) = term})

\* the terms looked up for the symbols of seq
Distinct(seq) == {EncKey(seq[i]) : i \in 1..Len(seq)}

Leaves(t) == {n \in Nodes(t) : IsLeaf(t, n)}

Internals(t) == {n \in Nodes(t) : ~IsLeaf(t, n)}

\* the symbols the decoder has been through
Consumed == SubSeq(input, 1, Len(output))

\* C16: first symbol.  On a fresh engine the first symbol is written as the
\* single bit 0 followed by its literal; from then on, as long as no other
\* symbol has been given, its leaf is the high child of the root and the
\* escape leaf the low child, and every repetition is written as the single
\* bit 1.
C16_FirstSymbol ==
  [][(EncodeStep /\ OneSymbol(input')) =>
       LET term == EncKey(input'[1])
           leaf == enc'.terms[term]
       IN  /\ input = <<>> => Appended = <<BitItem(0), LitItem(term)>>
           /\ input # <<>> => Appended = <<BitItem(1)>>
           /\ Known(enc', term)
           /\ enc'.high[enc'.codes] = leaf
           /\ enc'.low[enc'.codes] = enc'.top
           /\ IsLeaf(enc', leaf)
           /\ enc'.parent[leaf] = enc'.codes
           /\ enc'.parent[enc'.top] = enc'.codes]_vars

\* the one symbol has been repeated twice and its last code word is unread
C16_Witness ==
  /\ Len(input) = 3
  /\ OneSymbol(input)
  /\ Pending = 1
  /\ fp = <<BitItem(1)>>
  /\ enc.frequency[enc.high[enc.codes]] = 3

\* the leaves of t other than the escape leaf weigh as many as their symbol
\* occurs in seq, every symbol of seq has its leaf, and the escape leaf
\* weighs nothing
LeafWeights(t, seq) ==
  /\ \A term \in AllTerms :
       IF Count(term, seq) > 0
       THEN Known(t, term) /\ t.frequency[t.terms[term]] = Count(term, seq)
       ELSE ~Known(t, term)
  /\ \A n \in Leaves(t) \ {t.top} : t.frequency[n] = Count(t.term[n], seq)
  /\ t.frequency[t.top] = 0

\* C17: leaf weights count occurrences.  On the writing side for the symbols
\* written, on the reading side for the symbols read.
C17_LeafWeights ==
  /\ LeafWeights(enc, input)
  /\ LeafWeights(dec, Consumed)

\* A, B, A, B, A has been written and read: weights 3, 2 and 0
C17_Witness ==
  /\ Len(input) = 5
  /\ Alternating(input)
  /\ Pending = 0
  /\ enc.frequency[enc.terms[EncKey(input[1])]] = 3
  /\ dec.frequency[dec.terms[EncKey(input[2])]] = 2
  /\ dec.frequency[dec.top] = 0

\* with k >= 1 distinct symbols in seq, t has k + 1 leaves and k internal nodes
NodeCounts(t, seq) ==
  LET k == Cardinality(Distinct(seq))
  IN  k >= 1 => /\ Cardinality(Leaves(t)) = k + 1
                /\ Cardinality(Internals(t)) = k

\* C18: node counts, on the writing side for the symbols written and on the
\* reading side for the symbols read.
C18_NodeCounts ==
  /\ NodeCounts(enc, input)
  /\ NodeCounts(dec, Consumed)

\* three distinct symbols: four leaves and three internal nodes
C18_Witness ==
  /\ Cardinality(Distinct(input)) = 3
  /\ Cardinality(Leaves(enc)) = 4
  /\ Cardinality(Internals(enc)) = 3
  /\ Pending = 0
  /\ Len(input) >= 5

\* C19 as stated: in a run of two alternating symbols, once both are known,
\* every symbol is written in one bit.
C19_OneBitEach ==
  [][(EncodeStep /\ Alternating(input') /\ Len(input) >= 2) =>
       Len(Appended) = 1]_vars

\* C19 as the code has it: in a run a, b, a, b, ... once both are known,
\* a is written in one bit and b in two, a bit and a half per symbol.
C19_BitAndHalf ==
  [][(EncodeStep /\ Alternating(input') /\ Len(input) >= 2) =>
       /\ Appended = AppendedCode
       /\ Len(Appended) = IF input'[Len(input')] = input'[1] THEN 1 ELSE 2]_vars

\* a, b, a, b, a, b has been written; the last b took two bits
C19_Witness ==
  /\ Len(input) = 6
  /\ Alternating(input)
  /\ Pending = 1
  /\ Len(fp) = 2
  /\ IsBit(fp[1]) /\ IsBit(fp[2])

(* ------------------- the passes of one update, one by one -------------- *)

\* the passes of the loop of HFupdate started at 'current': the tree before
\* the pass, the node of the pass, the tree after it
RECURSIVE HFupdateTrace(_, _, _)
HFupdateTrace(t, current, fuel) ==
  IF current = NULL \/ fuel = 0 THEN <<>>
  ELSE LET t1 == HFupdateStep(t, current)
       IN  <<[before |-> t, current |-> current, after |-> t1]>>
             \o HFupdateTrace(t1, t1.parent[current], fuel - 1)

\* the update that an encoder call for term runs on tree t
UpdateRun(t, term) ==
  IF HTmember(t.terms, term) /\ HTgetPtr(t.terms, term) # NULL
  THEN HFupdateTrace(t, HTgetPtr(t.terms, term), MaxSteps(t))
  ELSE LET t1 == HFadd(t, term)
       IN  HFupdateTrace(t1, HFaddResult(t1), MaxSteps(t1))

\* the update of the encoder call that is the step
StepRun == UpdateRun(enc, EncKey(input'[Len(input')]))

\* the passes of a run, as a set
Passes(run) == {run[k] : k \in 1..Len(run)}

\* the node a pass exchanged its node with in the sibling order, if any
SwapPartner(pass) ==
  LET n == pass.after.blockList[BLpos(pass.before.blockList, pass.current)]
  IN  IF n = pass.current THEN NULL ELSE n

\* the last node in sibling order among the nodes that weigh as much as n
Leader(t, n) ==
  LET same == {i \in 1..Len(t.blockList) :
                 t.frequency[t.blockList[i]] = t.frequency[n]}
  IN  t.blockList[CHOOSE i \in same : \A j \in same : j <= i]

\* C21: block leader.  In every pass of an update the node is exchanged with
\* the leader of its block or not at all, and it is left in place only when
\* the leader is the node itself, its parent or one of its children.
C21_BlockLeader ==
  [][EncodeStep =>
       \A pass \in Passes(StepRun) :
         \A leader \in {Leader(pass.before, pass.current)} :
           IF SwapPartner(pass) # NULL
           THEN SwapPartner(pass) = leader
           ELSE \/ leader = pass.current
                \/ leader = pass.before.parent[pass.current]
                \/ pass.before.parent[leader] = pass.current]_vars

\* the nodes on the parent chain of n, n itself excluded, at most fuel steps up
RECURSIVE Ancestors(_, _, _)
Ancestors(t, n, fuel) ==
  IF t.parent[n] = NULL \/ fuel = 0 THEN {}
  ELSE {t.parent[n]} \cup Ancestors(t, t.parent[n], fuel - 1)

\* the parent chain of every node ends at the root without passing the node
\* again, every node hangs in a slot of its parent, and the root reaches all
IsTree(t) ==
  /\ t.parent[t.codes] = NULL
  /\ \A n \in Nodes(t) :
       /\ n \notin Ancestors(t, n, Len(t.parent))
       /\ n # t.codes => /\ t.codes \in Ancestors(t, n, Len(t.parent))
                         /\ (t.low[t.parent[n]] = n) # (t.high[t.parent[n]] = n)
  /\ Reachable(t) = Nodes(t)

\* C22: ancestor exclusion.  No pass of an update exchanges a node with one
\* of its ancestors or descendants, and after every encoder call the parent
\* pointers form no cycle: the structure is a tree hanging from the root.
C22_AncestorExclusion ==
  [][EncodeStep =>
       /\ \A pass \in Passes(StepRun) :
            \A m \in {SwapPartner(pass)} \ {NULL} :
              /\ m \notin Ancestors(pass.before, pass.current, Len(pass.before.parent))
              /\ pass.current \notin Ancestors(pass.before, m, Len(pass.before.parent))
              /\ IsTree(pass.after)
       /\ IsTree(enc')
       /\ ~enc'.hung]_vars

\* updates have exchanged nodes (the leaf of a symbol hangs in the low slot
\* of the root) in a tree that has an internal node two levels below the root
C22_Witness ==
  /\ SwapHappened(enc)
  /\ Len(enc.parent) >= 7
  /\ \E n \in Nodes(enc) : ~IsLeaf(enc, n) /\ enc.parent[n] # NULL
                           /\ enc.parent[enc.parent[n]] # NULL
  /\ Pending = 0

\* C23: swaps are weight-preserving.  The two nodes a pass exchanges weigh
\* the same before the pass, so the weights read along the sibling order
\* change in one place only, by the increment of the node of the pass.
C23_EqualWeightSwap ==
  [][EncodeStep =>
       \A pass \in Passes(StepRun) :
         /\ \A m \in {SwapPartner(pass)} \ {NULL} :
              pass.before.frequency[m] = pass.before.frequency[pass.current]
         /\ \A i \in 1..Len(pass.before.blockList) :
              pass.after.frequency[pass.after.blockList[i]] =
                pass.before.frequency[pass.before.blockList[i]]
                  + (IF pass.after.blockList[i] = pass.current THEN 1 ELSE 0)]_vars

\* the third symbol has been repeated: its leaf changed places with another
\* node of weight 1 and now weighs 2
C23_Witness ==
  /\ Len(input) = 4
  /\ input[4] = input[3]
  /\ Cardinality(Distinct(input)) = 3
  /\ enc.frequency[enc.terms[EncKey(input[4])]] = 2
  /\ \E i \in 1..Len(enc.blockList) :
       /\ enc.blockList[i] = enc.terms[EncKey(input[4])]
       /\ i > 2

\* no node is met again on the way down from one of its own child slots
DescentEnds(t) ==
  \A n \in Nodes(t) :
    /\ n \notin Below(t, t.low[n], Len(t.parent))
    /\ n \notin Below(t, t.high[n], Len(t.parent))

\* C24: termination.  The update of every encoder call makes at most one
\* pass per node, never two passes for the same node, and its last pass is
\* the one for the root; the walk is never cut off for going on too long; and
\* in the tree it leaves no descent through child slots comes back to a node
\* it has passed, so a descent ends after at most as many bits as there are
\* nodes.  Every decoder call reads no more bits than the tree has nodes.
C24_Termination ==
  [][/\ EncodeStep =>
          \A run \in {StepRun} :
              /\ run # <<>>
              /\ Len(run) <= Len(enc'.parent)
              /\ \A j, k \in 1..Len(run) : j # k => run[j].current # run[k].current
              /\ run[Len(run)].after.parent[run[Len(run)].current] = NULL
              /\ run[Len(run)].current = enc'.codes
              /\ ~enc'.hung
              /\ DescentEnds(enc')
     /\ DecodeStep =>
          /\ ~dec'.hung
          /\ DescentEnds(dec')
          /\ Len(fp) - Len(fp') <= Len(dec.parent)]_vars

\* an update of four passes has been run on both sides: a leaf that was
\* counted twice hangs three levels below the root
C24_Witness ==
  /\ Pending = 0
  /\ \E n \in Leaves(dec) : /\ Depth(dec, n, Len(dec.parent)) = 3
                            /\ dec.frequency[n] >= 2
  /\ ~enc.hung /\ ~dec.hung

(* ------------------------ order of effects in a call ------------------- *)

\* C25: order of effects within one symbol.  What an encoder call writes
\* starts with the code word of the leaf as it hangs in the tree the call
\* found; for a new symbol the literal comes right behind it, and the leaf
\* is inserted before the update, so that the update counts it (weight 1,
\* escape leaf 0, root one more).  A decoder call descends the tree it found
\* along the bits; at the escape leaf it reads the literal, inserts it and
\* counts it; at any other leaf it counts that leaf.
C25_OrderOfEffects ==
  [][/\ EncodeStep =>
          LET term == EncKey(input'[Len(input')])
              w    == Walk(enc, enc.codes, Appended)
          IN  /\ w.node = EmittedLeaf(enc, term)
              /\ enc'.frequency[enc'.codes] = enc.frequency[enc.codes] + 1
              /\ IF Known(enc, term)
                 THEN w.rest = <<>>
                 ELSE /\ w.rest = <<LitItem(term)>>
                      /\ enc'.frequency[enc'.terms[term]] = 1
                      /\ enc'.frequency[enc'.top] = 0
     /\ DecodeStep =>
          LET w == Walk(dec, dec.codes, fp)
          IN  /\ w.node # NULL
              /\ IsLeaf(dec, w.node)
              /\ dec'.frequency[dec'.codes] = dec.frequency[dec.codes] + 1
              /\ IF w.node = dec.top
                 THEN /\ LZread(w.rest)
                      /\ fp' = Tail(w.rest)
                      /\ ~Known(dec, Head(w.rest).term)
                      /\ Known(dec', Head(w.rest).term)
                      /\ dec'.terms[Head(w.rest).term] > Len(dec.parent)
                      /\ dec'.frequency[dec'.terms[Head(w.rest).term]] = 1
                      /\ dec'.frequency[dec'.top] = 0
                 ELSE /\ fp' = w.rest
                      /\ Len(dec'.parent) = Len(dec.parent)
                      /\ dec'.frequency[w.node] = dec.frequency[w.node] + 1]_vars

\* a new symbol was written and read when the escape leaf already hung two
\* levels below the root
C25_Witness ==
  /\ Pending = 0
  /\ Len(encRet) >= 3
  /\ encRet[Len(encRet)] = 0
  /\ Depth(dec, dec.top, Len(dec.parent)) >= 3
  /\ Len(dec.parent) = Len(enc.parent)

\* C26 as stated: the bits an encoder call writes are those of the tree as
\* the call leaves it; insert and update have been applied before the code
\* word is put on the stream.
C26_MutatedBeforeEmit ==
  [][EncodeStep =>
       LET term == EncKey(input'[Len(input')])
           leaf == IF Known(enc, term) THEN enc'.terms[term] ELSE enc'.top
       IN  Walk(enc', enc'.codes, AppendedCode) = [node |-> leaf, rest |-> <<>>]]_vars

\* C26 as the code has it: the bits an encoder call writes are those of the
\* tree as the call found it; the tree has changed by the time the call
\* returns, so the writer is one symbol ahead of whatever has not been read.
C26_EmitBeforeMutate ==
  [][EncodeStep =>
       LET term == EncKey(input'[Len(input')])
       IN  /\ Walk(enc, enc.codes, AppendedCode)
                = [node |-> EmittedLeaf(enc, term), rest |-> <<>>]
           /\ TreeView(enc') # TreeView(enc)
           /\ enc'.frequency[enc'.codes]
                = dec'.frequency[dec'.codes] + Pending']_vars

\* the code word of a known symbol is waiting in the stream and is no longer
\* the code word its leaf has in the writer's tree
C26_Witness ==
  /\ Pending = 1
  /\ encRet[Len(encRet)] = 1
  /\ fp # BSwriteBits(HFwriteCode(enc, enc.terms[EncKey(input[Len(input)])]))

(* ------------------------------ insertion ------------------------------ *)

\* t is the tree HFinit leaves: the root and the escape leaf in its low slot
InitShape(t) ==
  /\ Len(t.parent) = 2
  /\ t.codes # t.top
  /\ t.parent[t.codes] = NULL
  /\ t.low[t.codes] = t.top
  /\ t.high[t.codes] = NULL
  /\ t.frequency[t.codes] = 0
  /\ IsLeaf(t, t.top)
  /\ t.parent[t.top] = t.codes
  /\ t.frequency[t.top] = 0
  /\ t.term[t.top] = ESCAPE_SEQUENCE
  /\ t.blockList = <<t.top, t.codes>>
  /\ Bound(t) = {}

\* C27: init state.  As long as no symbol has been given, either engine is
\* the two-node tree of HFinit: a root of weight 0 without parent and with an
\* empty high slot, the escape leaf of weight 0 in its low slot, the sibling
\* order escape leaf, root, and no symbol bound.
C27_InitState ==
  /\ input = <<>> => InitShape(enc)
  /\ Len(output) - (IF Failed THEN 1 ELSE 0) = 0 => InitShape(dec)

\* the engines of the term variant right after HFinit
C27_Witness ==
  /\ input = <<>>
  /\ output = <<>>
  /\ fp = <<>>
  /\ variant = "term"
  /\ Nodes(enc) = {enc.codes, enc.top}

\* the tree HFadd makes of t for term is t with the escape leaf replaced, in
\* its slot, by a new internal node over the escape leaf and a new leaf
NormalInsertion(t, term) ==
  LET u   == HFadd(t, term)
      esc == t.top
      p   == t.parent[esc]
      n   == Len(t.parent)
      L   == HFaddResult(u)
      I   == u.parent[esc]
  IN  /\ Len(u.parent) = n + 2
      /\ I \in (n + 1)..(n + 2) /\ L \in (n + 1)..(n + 2) /\ I # L
      /\ t.low[p] = esc  => u.low[p] = I /\ u.high[p] = t.high[p]
      /\ t.low[p] # esc  => u.high[p] = I /\ u.low[p] = t.low[p]
      /\ u.parent[I] = p /\ u.frequency[I] = 0
      /\ u.low[I] = esc /\ u.high[I] = L
      /\ u.parent[L] = I /\ u.frequency[L] = 0 /\ u.term[L] = term
      /\ IsLeaf(u, L) /\ IsLeaf(u, esc)
      /\ u.blockList = <<esc, L, I>> \o Tail(t.blockList)
      /\ u.terms = [t.terms EXCEPT ![term] = L]
      /\ u.top = esc /\ u.codes = t.codes
      /\ \A m \in 1..n :
           /\ u.frequency[m] = t.frequency[m]
           /\ u.term[m] = t.term[m]
           /\ m # esc => u.parent[m] = t.parent[m]
           /\ m # p => u.low[m] = t.low[m] /\ u.high[m] = t.high[m]

\* C28: normal-case insertion.  Whenever an encoder call inserts a symbol
\* while the parent of the escape leaf has two children, HFadd puts a new
\* internal node of weight 0 into the slot of the escape leaf, with the
\* escape leaf as its low and a new leaf of weight 0 for the symbol as its
\* high child, registers the internal node and then the leaf behind the
\* escape leaf, binds the symbol to the leaf, returns the leaf, and changes
\* nothing else.
C28_NormalInsertion ==
  [][(EncodeStep /\ ~Known(enc, EncKey(input'[Len(input')]))
                 /\ enc.high[enc.parent[enc.top]] # NULL)
       => /\ NormalInsertion(enc, EncKey(input'[Len(input')]))
          /\ Len(enc'.parent) = Len(enc.parent) + 2]_vars

\* the third symbol has been inserted below an internal node that does not
\* hang from the root
C28_Witness ==
  /\ Len(enc.parent) = 7
  /\ encRet[Len(encRet)] = 0
  /\ enc.parent[enc.parent[enc.top]] # enc.codes
  /\ Pending = 1

\* the tree HFadd makes of t for term is t with one more leaf, in the high
\* slot of the root and right behind the escape leaf in the sibling order
BootstrapInsertion(t, term) ==
  LET u == HFadd(t, term)
      L == HFaddResult(u)
  IN  /\ Len(u.parent) = Len(t.parent) + 1
      /\ L = Len(u.parent)
      /\ Internals(u) = Internals(t)
      /\ t.parent[t.top] = t.codes
      /\ u.high[u.codes] = L /\ u.low[u.codes] = u.top
      /\ u.parent[L] = u.codes /\ u.frequency[L] = 0 /\ u.term[L] = term
      /\ IsLeaf(u, L)
      /\ u.blockList = <<t.top, L>> \o Tail(t.blockList)
      /\ u.terms = [t.terms EXCEPT ![term] = L]

\* C29: bootstrap insertion happens exactly once.  An encoder call that
\* inserts a symbol finds the escape leaf as the only child of its parent if
\* and only if it is the first call after HFinit; that insertion adds the
\* new leaf of weight 0 as the high child of the root, right behind the
\* escape leaf in the sibling order, and no internal node.
C29_BootstrapOnce ==
  [][(EncodeStep /\ ~Known(enc, EncKey(input'[Len(input')])))
       => /\ (enc.high[enc.parent[enc.top]] = NULL) <=> (input = <<>>)
          /\ input = <<>> => /\ BootstrapInsertion(enc, EncKey(input'[1]))
                             /\ Len(enc'.parent) = 3
                             /\ Cardinality(Internals(enc')) = 1]_vars

\* three insertions have been made, the first by the bootstrap case and the
\* other two by splitting the escape leaf
C29_Witness ==
  /\ Cardinality({i \in 1..Len(encRet) : encRet[i] = 0}) = 3
  /\ Len(enc.parent) = 7
  /\ enc.parent[3] # NULL
  /\ IsLeaf(enc, 3)
  /\ ~IsLeaf(enc, 4)

\* the other child of the parent of n
Sibling(t, n) ==
  IF t.parent[n] = NULL THEN NULL
  ELSE IF t.low[t.parent[n]] = n THEN t.high[t.parent[n]]
  ELSE t.low[t.parent[n]]

\* every node between a node and its sibling in the sibling order weighs as
\* much as either of the two
SiblingAdjacent(t) ==
  \A n \in Nodes(t) :
    LET s == Sibling(t, n)
    IN  s # NULL =>
          LET i == BLpos(t.blockList, n)
              j == BLpos(t.blockList, s)
          IN  \A k \in 1..Len(t.blockList) :
                (i < k /\ k < j) =>
                  /\ t.frequency[t.blockList[k]] = t.frequency[n]
                  /\ t.frequency[t.blockList[k]] = t.frequency[s]

\* C30: sibling adjacency.  In every state between two calls, every node and
\* its sibling are neighbours in the sibling order or have between them only
\* nodes that weigh as much as the two.
C30_SiblingAdjacent ==
  /\ SiblingAdjacent(enc)
  /\ SiblingAdjacent(dec)

\* after several exchanges, in a sibling order that is no longer sorted by
\* weight, every node of a seven-node tree still stands next to its sibling
C30_Witness ==
  /\ Len(dec.parent) = 7
  /\ SwapHappened(dec)
  /\ ~SiblingOrdered(dec)
  /\ \A n \in Nodes(dec) \ {dec.codes} :
       BLpos(dec.blockList, n) - BLpos(dec.blockList, Sibling(dec, n)) \in {-1, 1}

(* ------------- a table that already holds symbols without a leaf ------- *)

\* RebindSpec is Spec for a caller whose table, handed to HFinit, already
\* holds some of the symbols with no leaf bound to them.

\* symbols given to the encoder of RebindSpec
RebindLen == MaxLen - 2

\* the user symbols of a variant, as the terms the table is keyed by
Keys(v) == IF v = "term" THEN UserTerms ELSE {aterm_int(i) : i \in UserInts}

\* a table that holds the terms of S, none of them bound to a leaf
HTseen(S) == [x \in AllTerms |-> IF x \in S THEN NULL ELSE Absent]

RebindInit ==
  /\ variant \in {"term", "index"}
  /\ \E S \in SUBSET Keys(variant) :
       /\ enc = HFinit(HTseen(S))
       /\ dec = HFinit(HTseen(S))
  /\ fp = <<>>
  /\ input = <<>>
  /\ encRet = <<>>
  /\ output = <<>>

RebindEncodeATerm(term) ==
  /\ Len(input) < RebindLen
  /\ EncodeATerm(term)

RebindEncodeIndex(index) ==
  /\ Len(input) < RebindLen
  /\ EncodeIndex(index)

RebindNext ==
  \/ \E term \in UserTerms \cup {NullTerm} : RebindEncodeATerm(term)
  \/ \E index \in UserInts \cup {NO_INT} : RebindEncodeIndex(index)
  \/ DecodeATerm
  \/ DecodeIndex

RebindSpec == RebindInit /\ [][RebindNext]_vars

\* the terms the table of t holds, bound or not
Entries(t) == {x \in AllTerms : HTmember(t.terms, x)}

\* the table of t holds term with no leaf bound to it
Unbound(t, term) == HTmember(t.terms, term) /\ HTgetPtr(t.terms, term) = NULL

\* t1 is t with term, so far without a leaf, bound to a leaf that is new in
\* t1 and carries term; no entry is added and no other entry is touched
Rebound(t, t1, term) ==
  /\ Entries(t1) = Entries(t)
  /\ \A x \in AllTerms \ {term} : t1.terms[x] = t.terms[x]
  /\ t1.terms[term] \in Nodes(t1) \ Nodes(t)
  /\ IsLeaf(t1, t1.terms[term])
  /\ t1.term[t1.terms[term]] = term
  /\ \A n \in Nodes(t1) : t1.term[n] = term => n = t1.terms[term]

Grown(t, t1) ==
  /\ Nodes(t) \subseteq Nodes(t1)
  /\ Bound(t) \subseteq Bound(t1)
  /\ \A x \in Bound(t) : t1.terms[x] = t.terms[x]
  /\ \A n \in Nodes(t) :
       /\ t1.term[n] = t.term[n]
       /\ (IsLeaf(t, n) /\ n # t.top) => IsLeaf(t1, n)

\* t1 has the nodes, the leaves, the symbols and the table of t: nothing
\* but weights and places differ
SameNodes(t, t1) ==
  /\ Nodes(t1) = Nodes(t)
  /\ t1.terms = t.terms
  /\ t1.term = t.term
  /\ Leaves(t1) = Leaves(t)
  /\ t1.top = t.top
  /\ t1.codes = t.codes

\* C32: known-symbol frame and additive lifecycle.  A call that writes or
\* reads a symbol bound to a leaf creates no node, deletes none and leaves
\* the table as it was; any call leaves every node in the tree, every bound
\* symbol bound to the leaf it had, and every leaf a leaf with its symbol.
C32_KnownFrame ==
  [][/\ EncodeStep =>
          (Known(enc, EncKey(input'[Len(input')])) => SameNodes(enc, enc'))
     /\ DecodeStep =>
          \A w \in {Walk(dec, dec.codes, fp)} :
            (w.node # NULL /\ IsLeaf(dec, w.node) /\ w.node # dec.top)
              => SameNodes(dec, dec')
     /\ Grown(enc, enc')
     /\ Grown(dec, dec')]_vars

\* a known symbol went through both sides and changed places in the tree on
\* the way: both trees have the nodes they had, three symbols bound
C32_Witness ==
  /\ Len(input) >= 5
  /\ Pending = 0
  /\ encRet[Len(encRet)] = 1
  /\ output[Len(output)].ret = 1
  /\ Cardinality(Bound(enc)) = 3
  /\ Cardinality(Bound(dec)) = 3
  /\ SwapHappened(dec)

(* ---------------------------- the escape leaf -------------------------- *)

\* the leaves of t that carry the escape marker
EscapeLeaves(t) == {n \in Leaves(t) : t.term[n] = ESCAPE_SEQUENCE}

IsLit(item) == item.k = "lit"

\* the literals the stream s holds
Literals(s) == Len(SelectSeq(s, IsLit))

\* C33: escape-leaf identity.  In both trees exactly one leaf carries the
\* escape marker and it is the node that top designates; a decoder call
\* reads a literal if and only if its descent ends at that leaf, and then it
\* reads exactly one.
C33_EscapeIdentity ==
  /\ EscapeLeaves(enc) = {enc.top}
  /\ EscapeLeaves(dec) = {dec.top}
  /\ [][/\ EscapeLeaves(enc') = {enc'.top}
        /\ EscapeLeaves(dec') = {dec'.top}
        /\ enc'.top = enc.top
        /\ dec'.top = dec.top
        /\ DecodeStep =>
             \A w \in {Walk(dec, dec.codes, fp)} :
               /\ IsLeaf(dec, w.node)
               /\ Literals(fp') = Literals(fp) - (IF w.node = dec.top THEN 1 ELSE 0)
               /\ w.node = dec.top <=> dec.term[w.node] = ESCAPE_SEQUENCE]_vars

\* the decoder has read three literals at the escape leaf, which hangs three
\* levels below the root by now, and a symbol at another leaf after that
C33_Witness ==
  /\ Len(dec.parent) = 7
  /\ Depth(dec, dec.top, Len(dec.parent)) >= 3
  /\ Pending = 0
  /\ output[Len(output)].ret = 1
  /\ encRet[Len(encRet)] = 1

(* ------------- the reading side on a stream with a wrong bit ----------- *)

\* ForeignSpec is Spec with a stream whose bits need not be the ones the
\* encoder wrote: any unread bit may arrive inverted.  After the first
\* decoder call that counts no symbol the stream is given up.

\* the i-th unread item, a bit, arrives inverted
Flip(i) ==
  /\ ~Failed
  /\ fp[i].k = "bit"
  /\ fp' = [fp EXCEPT ![i] = BitItem(1 - fp[i].b)]
  /\ UNCHANGED <<variant, enc, dec, input, encRet, output>>

ForeignNext ==
  \/ \E term \in UserTerms \cup {NullTerm} : FaultEncodeATerm(term)
  \/ \E index \in UserInts \cup {NO_INT} : FaultEncodeIndex(index)
  \/ \E i \in 1..Len(fp) : Flip(i)
  \/ FaultDecodeATerm
  \/ FaultDecodeIndex

ForeignSpec == Init /\ [][ForeignNext]_vars

\* C34: decode succeeds only at a leaf.  A decoder call whose descent
\* follows a bit into an empty child slot does not return 1 and writes no
\* symbol into the caller's variable.
C34_EmptySlot ==
  [][DecodeStep =>
       \A w \in {Walk(dec, dec.codes, fp)} :
         w.node = NULL =>
           /\ output'[Len(output')].ret # 1
           /\ ~output'[Len(output')].set]_vars

\* the part of C34 that is about the caller's variable only
C34_NothingWritten ==
  [][DecodeStep =>
       \A w \in {Walk(dec, dec.codes, fp)} :
         w.node = NULL =>
           /\ ~output'[Len(output')].set
           /\ dec' = dec]_vars

(* ------------------------------- the root ------------------------------ *)

\* the node HFinit creates as root
InitRoot == HFinit(HTempty).codes

\* the root of t is the node HFinit made, it has no parent and is not a
\* leaf; the escape leaf hangs below some node
RootStable(t) ==
  /\ t.codes = InitRoot
  /\ t.parent[t.codes] = NULL
  /\ ~IsLeaf(t, t.codes)
  /\ t.top # t.codes
  /\ t.parent[t.top] # NULL

\* C35: root stability.  In every state both trees have the root HFinit
\* created: codes designates it, it has no parent and is an internal node,
\* and the escape leaf has a parent; in no pass of an update is the root
\* exchanged with another node, neither as the partner nor as the node that
\* is counted.
C35_RootStable ==
  /\ RootStable(enc)
  /\ RootStable(dec)
  /\ [][/\ RootStable(enc')
        /\ RootStable(dec')
        /\ EncodeStep =>
             \A pass \in Passes(StepRun) :
               /\ SwapPartner(pass) # pass.before.codes
               /\ pass.current = pass.before.codes => SwapPartner(pass) = NULL
               /\ RootStable(pass.after)]_vars

\* six symbols were counted at the root, nodes were exchanged on the way and
\* the escape leaf has moved away from the root
C35_Witness ==
  /\ enc.frequency[enc.codes] = MaxLen
  /\ dec.frequency[dec.codes] = MaxLen
  /\ SwapHappened(enc)
  /\ enc.parent[enc.top] # enc.codes

(* ------------------------- the order inside a block -------------------- *)

\* a stands before b in the sibling order of t
Before(t, a, b) == BLpos(t.blockList, a) < BLpos(t.blockList, b)

\* a and b weigh the same in t and in t1, the weight they had in t: neither
\* has left or entered a block between the two
StayTogether(t, t1, a, b) ==
  /\ a # b
  /\ t.frequency[a] = t.frequency[b]
  /\ t1.frequency[a] = t.frequency[a]
  /\ t1.frequency[b] = t.frequency[b]

\* C36: order inside a block.  Among nodes of equal weight the sibling order
\* is the order in which they entered the block: two nodes that are in a
\* block before a call and are both still in it after the call stand in the
\* same order as before.
C36_EntryOrder ==
  [][EncodeStep =>
       \A a, b \in Nodes(enc) :
         StayTogether(enc, enc', a, b)
           => (Before(enc, a, b) <=> Before(enc', a, b))]_vars


\* the node a slot of t points at
SlotRead(t, slot) ==
  IF slot[1] = "root" THEN t.codes
  ELSE IF slot[1] = "low" THEN t.low[slot[2]]
  ELSE t.high[slot[2]]

\* the node that hangs where pass.current hung before the pass, if another
TreePartner(pass) ==
  LET n == SlotRead(pass.after, SlotOf(pass.before, pass.current))
  IN  IF n = pass.current THEN NULL ELSE n

\* the nodes counted or exchanged in some pass of run
Touched(run) ==
  {pass.current : pass \in Passes(run)}
    \cup ({TreePartner(pass) : pass \in Passes(run)} \ {NULL})

\* the tree the update of the step starts from: after HFadd for a new term
AfterAdd ==
  IF Known(enc, EncKey(input'[Len(input')])) THEN enc
  ELSE HFadd(enc, EncKey(input'[Len(input')]))

\* C36, amended: a new node enters the sibling order right behind the escape
\* leaf, in front of the nodes that are there; in each pass of an update the
\* node counted and the node it is exchanged with in the tree trade places in
\* the order and every other node keeps its place.  Two nodes that are
\* together in a block before and after a call stand in the same order as
\* before unless one of them was counted or exchanged in that call.
C36_OrderUpToSwaps ==
  [][EncodeStep =>
       /\ \A t1 \in {AfterAdd} :
            /\ Head(t1.blockList) = enc.top
            /\ \A i \in 2..Len(t1.blockList) :
                 IF i <= 1 + Len(t1.parent) - Len(enc.parent)
                 THEN t1.blockList[i] > Len(enc.parent)
                 ELSE t1.blockList[i]
                        = enc.blockList[i - (Len(t1.parent) - Len(enc.parent))]
       /\ \A run \in {StepRun} :
            /\ \A pass \in Passes(run) :
                 \A m \in {TreePartner(pass)} :
                   \A n \in Nodes(pass.before) :
                     BLpos(pass.after.blockList, n)
                       = BLpos(pass.before.blockList,
                               IF n = pass.current /\ m # NULL THEN m
                               ELSE IF n = m THEN pass.current
                               ELSE n)
            /\ \A touched \in {Touched(run)} :
                 \A a, b \in Nodes(enc) \ touched :
                   StayTogether(enc, enc', a, b)
                     => (Before(enc, a, b) <=> Before(enc', a, b))]_vars

\* the second symbol was given twice: its leaf changed places with the leaf
\* of the first symbol, the leader of the block of weight 1, which now stands
\* in front of the interior node that came into that block after it
C36_Witness ==
  /\ Len(input) = 3
  /\ input[1] # input[2]
  /\ input[2] = input[3]
  /\ enc.frequency[3] = 1
  /\ enc.frequency[4] = 1
  /\ Before(enc, 3, 4)

(* --------------------------- the walk of an update --------------------- *)

\* the nodes the passes of run were made for
Met(run) == {pass.current : pass \in Passes(run)}

\* C37: update touches one node per level.  Every pass of an update counts
\* exactly one node, the node it is made for, once more by 1 and leaves all
\* other weights alone; the first pass is made for the leaf of the symbol,
\* each further pass for the parent the node of the pass before has when that
\* pass is over, the last for the root; no node is met twice; and after the
\* call every node met weighs 1 more than when the update began and every
\* other node weighs what it weighed.
C37_OnePerLevel ==
  [][EncodeStep =>
       \A run \in {StepRun} :
         /\ \A pass \in Passes(run) :
              pass.after.frequency =
                [pass.before.frequency EXCEPT ![pass.current] = @ + 1]
         /\ run[1].current = enc'.terms[EncKey(input'[Len(input')])]
         /\ run[1].before.frequency = AfterAdd.frequency
         /\ \A k \in 2..Len(run) :
              /\ run[k].current = run[k - 1].after.parent[run[k - 1].current]
              /\ run[k].before = run[k - 1].after
         /\ run[Len(run)].current = enc'.codes
         /\ Cardinality(Met(run)) = Len(run)
         /\ \A met \in {Met(run)} :
              \A n \in Nodes(enc') :
                enc'.frequency[n] =
                  AfterAdd.frequency[n] + (IF n \in met THEN 1 ELSE 0)]_vars

\* a leaf at least two levels down was counted for the second time: the walk
\* met it and the nodes above it, and passed by an interior node that has
\* weight and is not above the leaf
C37_Witness ==
  /\ Len(input) = 5
  /\ Cardinality(Distinct(input)) = 3
  /\ \E leaf \in {enc.terms[EncKey(input[5])]} :
       /\ enc.frequency[leaf] = 2
       /\ Depth(enc, leaf, Len(enc.parent)) >= 2
       /\ \E n \in Internals(enc) \ Ancestors(enc, leaf, Len(enc.parent)) :
            enc.frequency[n] >= 1

(* -------------------------------- HFfree ------------------------------- *)

\* BLfree: the block list is released
BLfree == <<>>

\* the nodes HFfreeLoop(node) hands to delete, in the order it does
RECURSIVE HFfreeLoop(_, _, _)
HFfreeLoop(t, node, fuel) ==
  IF node = NULL \/ fuel = 0 THEN <<>>
  ELSE HFfreeLoop(t, t.low[node], fuel - 1)
         \o HFfreeLoop(t, t.high[node], fuel - 1)
         \o <<node>>

\* the HFtree after HFfree(tree): the struct keeps what its fields held, the
\* block list is released, and 'freed' lists the nodes that were deleted
HFfree(t) ==
  [ codes     |-> t.codes,
    top       |-> t.top,
    parent    |-> t.parent,
    low       |-> t.low,
    high      |-> t.high,
    frequency |-> t.frequency,
    term      |-> t.term,
    blockList |-> BLfree,
    terms     |-> t.terms,
    hung      |-> t.hung,
    freed     |-> HFfreeLoop(t, t.codes, Len(t.parent)) ]

\* HFfree has not been called for t
Live(t) == "freed" \notin DOMAIN t

\* TeardownSpec is Spec with an end: either side may free its tree at any
\* quiescent point and is not used afterwards.

\* symbols given to the encoder of TeardownSpec
TeardownLen == MaxLen - 2

TeardownEncodeATerm(term) ==
  /\ Live(enc)
  /\ Len(input) < TeardownLen
  /\ EncodeATerm(term)

TeardownEncodeIndex(index) ==
  /\ Live(enc)
  /\ Len(input) < TeardownLen
  /\ EncodeIndex(index)

TeardownDecodeATerm ==
  /\ Live(dec)
  /\ DecodeATerm

TeardownDecodeIndex ==
  /\ Live(dec)
  /\ DecodeIndex

\* HFfree of the writing side
FreeEncoder ==
  /\ Live(enc)
  /\ enc' = HFfree(enc)
  /\ UNCHANGED <<variant, dec, fp, input, encRet, output>>

\* HFfree of the reading side
FreeDecoder ==
  /\ Live(dec)
  /\ dec' = HFfree(dec)
  /\ UNCHANGED <<variant, enc, fp, input, encRet, output>>

TeardownNext ==
  \/ \E term \in UserTerms \cup {NullTerm} : TeardownEncodeATerm(term)
  \/ \E index \in UserInts \cup {NO_INT} : TeardownEncodeIndex(index)
  \/ TeardownDecodeATerm
  \/ TeardownDecodeIndex
  \/ FreeEncoder
  \/ FreeDecoder

TeardownSpec == Init /\ [][TeardownNext]_vars

\* every node of t was deleted by the call that left t1, each once, and the
\* block list was released
NodesReleasedOnce(t, t1) ==
  /\ t1.blockList = BLfree
  /\ Len(t1.freed) = Len(t.parent)
  /\ \A n \in Nodes(t) : \E i \in 1..Len(t1.freed) : t1.freed[i] = n
  /\ \A i \in 1..Len(t1.freed) :
       \A c \in {t.low[t1.freed[i]], t.high[t1.freed[i]]} \ {NULL} :
         \E j \in 1..(i - 1) : t1.freed[j] = c

\* the table of t1 holds nothing, so no entry points at a deleted node
TableReleased(t1) ==
  /\ Entries(t1) = {}
  /\ \A x \in AllTerms :
       \A i \in 1..Len(t1.freed) : t1.terms[x] # t1.freed[i]

\* C38: teardown.  HFfree releases the block list and deletes every node of
\* the tree exactly once, the root, the escape leaf, every interior node and
\* every leaf of a symbol, and it releases the table, so that afterwards no
\* entry of the table points at a deleted leaf.
C38_Teardown ==
  [][/\ (Live(enc) /\ ~Live(enc'))
          => NodesReleasedOnce(enc, enc') /\ TableReleased(enc')
     /\ (Live(dec) /\ ~Live(dec'))
          => NodesReleasedOnce(dec, dec') /\ TableReleased(dec')]_vars

\* the part of C38 that is about the tree and the block list only; a node is
\* deleted after its children
C38_TreeReleased ==
  [][/\ (Live(enc) /\ ~Live(enc')) => NodesReleasedOnce(enc, enc')
     /\ (Live(dec) /\ ~Live(dec')) => NodesReleasedOnce(dec, dec')]_vars

=============================================================================
